---- MODULE Spec2Model ----
(***************************************************************************)
(* Access-control mixins of mult_mixins (StaffMixin, SuperuserMixin,       *)
(* OwnerMixin, OwnerOrStaffMixin) and the UserHelper that creates the      *)
(* users they are tested with.                                             *)
(*                                                                         *)
(* A user object is a record [username, is_staff, is_superuser,            *)
(* is_authenticated].  The directory `users` is the user table.  A view    *)
(* evaluation takes request.user, the URL kwargs, the view's owner_kwargs  *)
(* and request.path; test_func answers "True", "False" or raises Http404,  *)
(* and may call logger.info once.                                          *)
(***************************************************************************)
EXTENDS Naturals, Sequences, FiniteSets

VARIABLES
    users,      \* rows of the user table (get_user_model().objects)
    helpers,    \* UserHelper objects alive in the program
    last,       \* the request being served: its inputs and its outcome
    auditLog,   \* what logger.info was called with, in order
    nStaffOther, \* number of OwnerOrStaff evaluations that let a staff non-owner in
    evals       \* the view instances of the requests served concurrently

vars == <<users, helpers, last, auditLog, nStaffOther, evals>>

----------------------------------------------------------------------------
(* Bounds of the model *)

MaxUsers == 2
MaxLog == 2
NumEvals == 2

(* Python's None; no username and no URL value is spelled this way *)
None == "None"

(* usernames UserHelper is called with *)
Names == {"owner", "staff"}

(* values a URL parameter can carry: a username, which may or may not be in
   the user table, and the empty string, which never is *)
UrlValues == {"owner", ""}

(* names of URL parameters *)
UrlKeys == {"username", "user"}

(* values of the view attribute owner_kwargs *)
OwnerKwargsValues == {None, "user"}

Paths == {"/rand", "/page"}

Policies == {"StaffOnly", "SuperuserOnly", "OwnerOnly", "OwnerOrStaff"}

----------------------------------------------------------------------------
(* Users *)

(* django.contrib.auth.models.AnonymousUser, as the tests install it *)
AnonymousUser ==
    [username |-> "", is_staff |-> FALSE, is_superuser |-> FALSE,
     is_authenticated |-> FALSE]

(* a row of the user table *)
User(name, staff, super) ==
    [username |-> name, is_staff |-> staff, is_superuser |-> super,
     is_authenticated |-> TRUE]

(* UserHelper.__init__: is_staff is forced when is_staff or is_superuser is
   passed true; an absent keyword is the default False *)
UserHelper_is_staff(kw_staff, kw_super) == kw_staff \/ kw_super

(* Helper.create in place of UserHelper.create, with is_superuser iterated
   instead of is_staff *)
UserHelper_create_plain(name, attr_staff, attr_super) ==
    User(name, FALSE, attr_super)

(* UserHelper.create: create_superuser for a superuser, create_user otherwise;
   both receive dict(self), which carries is_staff and not is_superuser.
   create_superuser sets is_superuser and refuses is_staff other than True
   (ValueError, no row is written); create_user leaves is_superuser False. *)
UserHelper_create_ok(attr_staff, attr_super) == attr_super => attr_staff

UserHelper_create(name, attr_staff, attr_super) ==
    IF attr_super
    THEN User(name, attr_staff, TRUE)
    ELSE User(name, attr_staff, FALSE)

(* get_user_model().objects.filter(username=name).exists() *)
Exists(dir, name) == \E u \in dir : u.username = name

(* self.kwargs.get(key) *)
kwargs_get(kwargs, key) ==
    IF key \in DOMAIN kwargs THEN kwargs[key] ELSE None

----------------------------------------------------------------------------
(* The mixins.  A test_func answers [ret, log]: ret is "True", "False" or
   "Http404" (the exception raised), log the logger.info calls it made. *)

Result(r, l) == [ret |-> r, log |-> l]

Bool(b) == IF b THEN "True" ELSE "False"

(* any logged-in user passes *)
StaffMixin_test_func_authenticated(user) ==
    Result(Bool(user.is_authenticated), <<>>)

(* StaffMixin.test_func *)
StaffMixin_test_func(user) == Result(Bool(user.is_staff), <<>>)

(* the staff test copied into the superuser mixin *)
SuperuserMixin_test_func_staff(user) == Result(Bool(user.is_staff), <<>>)

(* SuperuserMixin.test_func *)
SuperuserMixin_test_func(user) == Result(Bool(user.is_superuser), <<>>)

(* owner_kwargs ignored *)
OwnerMixin_get_owner_kwargs_fixed(owner_kwargs) == "username"

(* OwnerMixin.get_owner_kwargs *)
OwnerMixin_get_owner_kwargs(owner_kwargs) ==
    IF owner_kwargs = None THEN "username" ELSE owner_kwargs

(* staff let through by the owner test *)
OwnerMixin_test_func_staff(user, kwargs, owner_kwargs, path, dir) ==
    IF ~Exists(dir, kwargs_get(kwargs, OwnerMixin_get_owner_kwargs(owner_kwargs)))
    THEN Result("Http404", <<>>)
    ELSE Result(Bool(\/ user.username
                        = kwargs_get(kwargs, OwnerMixin_get_owner_kwargs(owner_kwargs))
                     \/ user.is_staff),
                <<>>)

(* the page of another user hidden behind Http404 *)
OwnerMixin_test_func_hidden(user, kwargs, owner_kwargs, path, dir) ==
    IF \/ ~Exists(dir, kwargs_get(kwargs, OwnerMixin_get_owner_kwargs(owner_kwargs)))
       \/ user.username
            # kwargs_get(kwargs, OwnerMixin_get_owner_kwargs(owner_kwargs))
    THEN Result("Http404", <<>>)
    ELSE Result("True", <<>>)

(* OwnerMixin.test_func *)
OwnerMixin_test_func(user, kwargs, owner_kwargs, path, dir) ==
    IF ~Exists(dir, kwargs_get(kwargs, OwnerMixin_get_owner_kwargs(owner_kwargs)))
    THEN Result("Http404", <<>>)
    ELSE Result(Bool(user.username
                     = kwargs_get(kwargs, OwnerMixin_get_owner_kwargs(owner_kwargs))),
                <<>>)

(* OwnerOrStaffMixin.get_owner_kwargs *)
OwnerOrStaffMixin_get_owner_kwargs(owner_kwargs) ==
    IF owner_kwargs = None THEN "username" ELSE owner_kwargs

(* the owner comparison made before the existence check *)
OwnerOrStaffMixin_test_func_owner_first(user, kwargs, owner_kwargs, path, dir) ==
    IF user.username
       = kwargs_get(kwargs, OwnerOrStaffMixin_get_owner_kwargs(owner_kwargs))
    THEN Result("True", <<>>)
    ELSE IF ~Exists(dir, kwargs_get(kwargs,
                                    OwnerOrStaffMixin_get_owner_kwargs(owner_kwargs)))
    THEN Result("Http404", <<>>)
    ELSE IF user.is_staff
    THEN Result("True", << <<user.username, path>> >>)
    ELSE Result("False", <<>>)

(* the staff branch missing *)
OwnerOrStaffMixin_test_func_no_staff(user, kwargs, owner_kwargs, path, dir) ==
    IF ~Exists(dir, kwargs_get(kwargs, OwnerOrStaffMixin_get_owner_kwargs(owner_kwargs)))
    THEN Result("Http404", <<>>)
    ELSE IF user.username
            = kwargs_get(kwargs, OwnerOrStaffMixin_get_owner_kwargs(owner_kwargs))
    THEN Result("True", <<>>)
    ELSE Result("False", <<>>)

(* logger.info called for every staff user let in, the owner included *)
OwnerOrStaffMixin_test_func_log_owner(user, kwargs, owner_kwargs, path, dir) ==
    IF ~Exists(dir, kwargs_get(kwargs, OwnerOrStaffMixin_get_owner_kwargs(owner_kwargs)))
    THEN Result("Http404", <<>>)
    ELSE IF user.is_staff
    THEN Result("True", << <<user.username, path>> >>)
    ELSE IF user.username
            = kwargs_get(kwargs, OwnerOrStaffMixin_get_owner_kwargs(owner_kwargs))
    THEN Result("True", <<>>)
    ELSE Result("False", <<>>)

(* OwnerOrStaffMixin.test_func *)
OwnerOrStaffMixin_test_func(user, kwargs, owner_kwargs, path, dir) ==
    IF ~Exists(dir, kwargs_get(kwargs, OwnerOrStaffMixin_get_owner_kwargs(owner_kwargs)))
    THEN Result("Http404", <<>>)
    ELSE IF user.username
            = kwargs_get(kwargs, OwnerOrStaffMixin_get_owner_kwargs(owner_kwargs))
    THEN Result("True", <<>>)
    ELSE IF user.is_staff
    THEN Result("True", << <<user.username, path>> >>)
    ELSE Result("False", <<>>)

(* the test_func of the view built on the given mixin *)
test_func(policy, user, kwargs, owner_kwargs, path, dir) ==
    CASE policy = "StaffOnly" -> StaffMixin_test_func(user)
      [] policy = "SuperuserOnly" -> SuperuserMixin_test_func(user)
      [] policy = "OwnerOnly" ->
            OwnerMixin_test_func(user, kwargs, owner_kwargs, path, dir)
      [] policy = "OwnerOrStaff" ->
            OwnerOrStaffMixin_test_func(user, kwargs, owner_kwargs, path, dir)

(* What the view answers: every mixin sets raise_exception = True, so a false
   test_func raises PermissionDenied (403) for anonymous users too; Http404
   passes through; otherwise the view's get() answers 200. *)
Verdict(ret) ==
    CASE ret = "True" -> "Allow"
      [] ret = "False" -> "DenyForbidden"
      [] ret = "Http404" -> "DenyNotFound"

----------------------------------------------------------------------------
(* State machine: helpers create and destroy users, views are evaluated *)

(* self.kwargs of a request: any subset of the URL parameters, with values *)
AllKwargs == UNION {[K -> UrlValues] : K \in SUBSET UrlKeys}

NoKwargs == [k \in {} |-> ""]

(* request.user: AnonymousUser() or the object of a helper *)
RequestUsers == {AnonymousUser} \cup {h.object : h \in helpers}

NoEvaluation ==
    [policy |-> "none", user |-> AnonymousUser, kwargs |-> NoKwargs,
     owner_kwargs |-> None, path |-> "", ret |-> "none", verdict |-> "none",
     log |-> <<>>]

(* a view instance no request has been given to *)
IdleView ==
    [pc |-> "idle", policy |-> "none", user |-> AnonymousUser, kwargs |-> NoKwargs,
     owner_kwargs |-> None, path |-> "", ret |-> "none", emitted |-> <<>>]

Init ==
    /\ evals = [e \in 1..NumEvals |-> IdleView]
    /\ users = {}
    /\ helpers = {}
    /\ last = NoEvaluation
    /\ auditLog = <<>>
    /\ nStaffOther = 0

(* UserHelper(username=name, is_staff=kw_staff, is_superuser=kw_super) *)
UserHelperInit(name, kw_staff, kw_super) ==
    /\ last = NoEvaluation
    /\ Cardinality(helpers) < MaxUsers
    /\ ~Exists(users, name)
    /\ UserHelper_create_ok(UserHelper_is_staff(kw_staff, kw_super), kw_super)
    /\ LET obj == UserHelper_create(name, UserHelper_is_staff(kw_staff, kw_super),
                                    kw_super)
           h == [is_staff |-> UserHelper_is_staff(kw_staff, kw_super),
                 is_superuser |-> kw_super, object |-> obj]
       IN /\ h \notin helpers
          /\ users' = users \cup {obj}
          /\ helpers' = helpers \cup {h}
    /\ UNCHANGED <<last, auditLog, nStaffOther, evals>>

(* Helper.destroy: the row is deleted, the helper keeps its object *)
Destroy(h) ==
    /\ last = NoEvaluation
    /\ h.object \in users
    /\ users' = users \ {h.object}
    /\ UNCHANGED <<helpers, last, auditLog, nStaffOther, evals>>

(* view.as_view()(request, **kwargs) on the view built on `policy`; requests
   are served until the log holds MaxLog entries *)
Evaluate(policy, user, kwargs, owner_kwargs, path) ==
    /\ last = NoEvaluation
    /\ Len(auditLog) < MaxLog
    /\ nStaffOther < MaxLog
    /\ LET r == test_func(policy, user, kwargs, owner_kwargs, path, users)
           key == IF owner_kwargs = None THEN "username" ELSE owner_kwargs
       IN /\ last' = [policy |-> policy, user |-> user, kwargs |-> kwargs,
                      owner_kwargs |-> owner_kwargs, path |-> path,
                      ret |-> r.ret, verdict |-> Verdict(r.ret), log |-> r.log]
          /\ auditLog' = auditLog \o r.log
          /\ nStaffOther' =
                IF /\ policy = "OwnerOrStaff"
                   /\ r.ret = "True"
                   /\ user.username # kwargs_get(kwargs, key)
                THEN nStaffOther + 1 ELSE nStaffOther
    /\ UNCHANGED <<users, helpers, evals>>

(* The response (or the exception) reaches the caller and the view instance
   that as_view() made for the request is dropped *)
EndRequest ==
    /\ last # NoEvaluation
    /\ last' = NoEvaluation
    /\ UNCHANGED <<users, helpers, auditLog, nStaffOther, evals>>

(* the views on StaffMixin and SuperuserMixin have no owner_kwargs and are
   routed without URL parameters *)
Next ==
    \/ \E name \in Names, kw_staff \in BOOLEAN, kw_super \in BOOLEAN :
          UserHelperInit(name, kw_staff, kw_super)
    \/ \E h \in helpers : Destroy(h)
    \/ \E policy \in {"StaffOnly", "SuperuserOnly"}, user \in RequestUsers,
          path \in Paths :
          Evaluate(policy, user, NoKwargs, None, path)
    \/ \E policy \in {"OwnerOnly", "OwnerOrStaff"}, user \in RequestUsers,
          kwargs \in AllKwargs, owner_kwargs \in OwnerKwargsValues, path \in Paths :
          Evaluate(policy, user, kwargs, owner_kwargs, path)
    \/ EndRequest

Spec == Init /\ [][Next]_vars

----------------------------------------------------------------------------
(* Concurrent requests.  The server gives every request a view instance of
   its own (as_view), holding self.request and self.kwargs; the threads
   interleave between the statements of test_func.  The user table is the one
   the tests set up and does not change; the logger is shared. *)

(* setUpTestData: UserHelper(username="owner"), UserHelper(username="staff",
   is_staff=True) *)
TestUsers ==
    {UserHelper_create("owner", UserHelper_is_staff(FALSE, FALSE), FALSE),
     UserHelper_create("staff", UserHelper_is_staff(TRUE, FALSE), FALSE)}

ConcRequestUsers == {AnonymousUser} \cup TestUsers

(* the URL carries a known or an unknown username *)
ConcKwargs == {[k \in {"username"} |-> v] : v \in {"owner", "hello"}}

(* RequestFactory().get('/rand') *)
ConcPaths == {"/rand"}

InitConc ==
    /\ evals = [e \in 1..NumEvals |-> IdleView]
    /\ users = TestUsers
    /\ helpers = {}
    /\ last = NoEvaluation
    /\ auditLog = <<>>
    /\ nStaffOther = 0

(* self.request.user of a request that was given slot 1's request *)
request_user_shared(e) == evals[1].user

(* self.request.user *)
request_user(e) == evals[e].user

(* self.kwargs.get(self.get_owner_kwargs()) *)
owner_ref(e) ==
    IF evals[e].policy = "OwnerOnly"
    THEN kwargs_get(evals[e].kwargs,
                    OwnerMixin_get_owner_kwargs(evals[e].owner_kwargs))
    ELSE kwargs_get(evals[e].kwargs,
                    OwnerOrStaffMixin_get_owner_kwargs(evals[e].owner_kwargs))

Goto(e, pc) == evals' = [evals EXCEPT ![e].pc = pc]

Return(e, ret) == evals' = [evals EXCEPT ![e].pc = "done", ![e].ret = ret]

ConcFrame == UNCHANGED <<users, helpers, last, nStaffOther>>

(* as_view() makes the view instance of a request and calls dispatch *)
Dispatch(e, policy, user, kwargs, path) ==
    /\ evals[e].pc = "idle"
    /\ evals' = [evals EXCEPT ![e] =
            [pc |-> IF policy \in {"OwnerOnly", "OwnerOrStaff"}
                    THEN "exists" ELSE "flag",
             policy |-> policy, user |-> user, kwargs |-> kwargs,
             owner_kwargs |-> None, path |-> path, ret |-> "none",
             emitted |-> <<>>]]
    /\ UNCHANGED auditLog
    /\ ConcFrame

(* StaffMixin.test_func, SuperuserMixin.test_func: one attribute read *)
CheckFlag(e) ==
    /\ evals[e].pc = "flag"
    /\ Return(e, IF evals[e].policy = "StaffOnly"
                 THEN Bool(request_user(e).is_staff)
                 ELSE Bool(request_user(e).is_superuser))
    /\ UNCHANGED auditLog
    /\ ConcFrame

(* the query of the user table; Http404 leaves test_func *)
CheckExists(e) ==
    /\ evals[e].pc = "exists"
    /\ IF ~Exists(users, owner_ref(e))
       THEN Return(e, "Http404")
       ELSE Goto(e, "owner")
    /\ UNCHANGED auditLog
    /\ ConcFrame

(* the comparison of get_username() with the URL parameter *)
CheckOwner(e) ==
    /\ evals[e].pc = "owner"
    /\ IF evals[e].policy = "OwnerOnly"
       THEN Return(e, Bool(request_user(e).username = owner_ref(e)))
       ELSE IF request_user(e).username = owner_ref(e)
       THEN Return(e, "True")
       ELSE Goto(e, "staff")
    /\ UNCHANGED auditLog
    /\ ConcFrame

(* elif self.request.user.is_staff *)
CheckStaff(e) ==
    /\ evals[e].pc = "staff"
    /\ IF request_user(e).is_staff
       THEN Goto(e, "log")
       ELSE Return(e, "False")
    /\ UNCHANGED auditLog
    /\ ConcFrame

(* logger.info(...); ret = True *)
EmitLog(e) ==
    /\ evals[e].pc = "log"
    /\ auditLog' = Append(auditLog, <<request_user(e).username, evals[e].path>>)
    /\ evals' = [evals EXCEPT
            ![e].pc = "done", ![e].ret = "True",
            ![e].emitted = << <<request_user(e).username, evals[e].path>> >>]
    /\ ConcFrame

NextConc ==
    \/ \E e \in 1..NumEvals, policy \in Policies, user \in ConcRequestUsers,
          kwargs \in ConcKwargs, path \in ConcPaths :
          Dispatch(e, policy, user, kwargs, path)
    \/ \E e \in 1..NumEvals : CheckFlag(e)
    \/ \E e \in 1..NumEvals : CheckExists(e)
    \/ \E e \in 1..NumEvals : CheckOwner(e)
    \/ \E e \in 1..NumEvals : CheckStaff(e)
    \/ \E e \in 1..NumEvals : EmitLog(e)

SpecConc == InitConc /\ [][NextConc]_vars

----------------------------------------------------------------------------
(* What the claims speak of, read off the request being served *)

OwnerPolicies == {"OwnerOnly", "OwnerOrStaff"}

(* the URL parameter the view is configured to read *)
LastKey == IF last.owner_kwargs = None THEN "username" ELSE last.owner_kwargs

(* the owner reference of the request; None when the parameter is missing *)
LastOwnerRef ==
    IF LastKey \in DOMAIN last.kwargs THEN last.kwargs[LastKey] ELSE None

(* the owner reference has an entry in the directory *)
OwnerKnown == \E u \in users : u.username = LastOwnerRef

IsOwner == last.user.username = LastOwnerRef

(* C1: under OwnerOnly and OwnerOrStaff an owner reference with no entry in
   the directory yields DenyNotFound, whoever the principal is, also when
   the principal's identifier equals the owner reference *)
C1_NotFoundPrecedence ==
    (last.policy \in OwnerPolicies /\ ~OwnerKnown)
        => last.verdict = "DenyNotFound"

(* a principal whose identifier equals an unknown owner reference was answered *)
C1_Witness ==
    /\ last.policy = "OwnerOrStaff"
    /\ ~OwnerKnown
    /\ IsOwner
    /\ last.user.is_staff
    /\ last.verdict = "DenyNotFound"

(* C2: under OwnerOrStaff, for an owner reference in the directory, the
   verdict is Allow for the owner, otherwise Allow for staff, otherwise
   DenyForbidden *)
C2_OwnerOrStaffVerdict ==
    (last.policy = "OwnerOrStaff" /\ OwnerKnown)
        => last.verdict = (IF IsOwner THEN "Allow"
                           ELSE IF last.user.is_staff THEN "Allow"
                           ELSE "DenyForbidden")

(* a staff user was let into the page of another existing user *)
C2_Witness ==
    /\ last.policy = "OwnerOrStaff"
    /\ OwnerKnown
    /\ ~IsOwner
    /\ last.user.is_staff
    /\ last.verdict = "Allow"

(* C3: under OwnerOnly, for an owner reference in the directory, the verdict
   is Allow exactly for the owner and DenyForbidden otherwise, whatever
   is_staff and is_superuser are *)
C3_OwnerOnlyVerdict ==
    (last.policy = "OwnerOnly" /\ OwnerKnown)
        => last.verdict = (IF IsOwner THEN "Allow" ELSE "DenyForbidden")

(* a superuser was refused the page of another existing user *)
C3_Witness ==
    /\ last.policy = "OwnerOnly"
    /\ OwnerKnown
    /\ ~IsOwner
    /\ last.user.is_superuser
    /\ last.user.is_staff
    /\ last.verdict = "DenyForbidden"

(* the audit entries one evaluation is to emit *)
ExpectedLog(ev, known) ==
    IF /\ ev.policy = "OwnerOrStaff"
       /\ known
       /\ ev.user.username
            # (IF (IF ev.owner_kwargs = None THEN "username" ELSE ev.owner_kwargs)
                    \in DOMAIN ev.kwargs
               THEN ev.kwargs[IF ev.owner_kwargs = None THEN "username"
                              ELSE ev.owner_kwargs]
               ELSE None)
       /\ ev.user.is_staff
    THEN << <<ev.user.username, ev.path>> >>
    ELSE <<>>

(* C4: an evaluation appends exactly one audit entry (principal identifier,
   path) when it is OwnerOrStaff, the owner exists, the principal is staff and
   not the owner; every other evaluation and every other step leaves the audit
   log as it is; and the number of entries always equals the number of
   staff-non-owner Allow verdicts of OwnerOrStaff *)
C4_AuditLog ==
    /\ [][ IF last = NoEvaluation /\ last' # NoEvaluation
           THEN auditLog' = auditLog \o ExpectedLog(last', OwnerKnown')
           ELSE auditLog' = auditLog ]_vars
    /\ [](Len(auditLog) = nStaffOther)

(* a second audit entry was written, by a staff user on another user's page *)
C4_Witness ==
    /\ last.policy = "OwnerOrStaff"
    /\ last.verdict = "Allow"
    /\ ~IsOwner
    /\ Len(auditLog) = 2
    /\ auditLog[2] = <<last.user.username, last.path>>

(* C5: DenyNotFound is answered only by OwnerOnly and OwnerOrStaff, and only
   for an owner reference that has no entry in the directory *)
C5_NotFoundOnlyUnknown ==
    last.verdict = "DenyNotFound"
        => (last.policy \in OwnerPolicies /\ ~OwnerKnown)

(* DenyNotFound answered for a username that is not in the directory, while
   other views answered Allow or DenyForbidden *)
C5_Witness ==
    /\ last.policy = "OwnerOnly"
    /\ last.verdict = "DenyNotFound"
    /\ LastOwnerRef = "owner"
    /\ users # {}

(* C6: StaffOnly answers Allow exactly when the principal is authenticated
   and staff, and DenyForbidden otherwise *)
C6_StaffOnlyVerdict ==
    last.policy = "StaffOnly"
        => last.verdict = (IF last.user.is_authenticated /\ last.user.is_staff
                           THEN "Allow" ELSE "DenyForbidden")

(* an authenticated user who is not staff was refused *)
C6_Witness ==
    /\ last.policy = "StaffOnly"
    /\ last.user.is_authenticated
    /\ ~last.user.is_staff
    /\ last.verdict = "DenyForbidden"

(* C7: SuperuserOnly answers Allow exactly when the principal is
   authenticated and superuser, and DenyForbidden otherwise; staff alone is
   refused *)
C7_SuperuserOnlyVerdict ==
    last.policy = "SuperuserOnly"
        => last.verdict = (IF last.user.is_authenticated /\ last.user.is_superuser
                           THEN "Allow" ELSE "DenyForbidden")

(* a staff user who is not superuser was refused *)
C7_Witness ==
    /\ last.policy = "SuperuserOnly"
    /\ last.user.is_staff
    /\ ~last.user.is_superuser
    /\ last.verdict = "DenyForbidden"

(* C8: get_owner_kwargs answers 'username' for None and the configured value
   otherwise, and the verdict of a view configured with key K on a request
   that carries the owner under K equals the verdict of the default view on
   the request that carries the same owner under 'username' *)
C8_OwnerLookupKey ==
    /\ OwnerMixin_get_owner_kwargs(None) = "username"
    /\ OwnerOrStaffMixin_get_owner_kwargs(None) = "username"
    /\ (last.policy \in OwnerPolicies /\ last.owner_kwargs # None)
        => /\ OwnerMixin_get_owner_kwargs(last.owner_kwargs) = last.owner_kwargs
           /\ OwnerOrStaffMixin_get_owner_kwargs(last.owner_kwargs)
                = last.owner_kwargs
           /\ last.owner_kwargs \in DOMAIN last.kwargs
                => last.verdict
                    = Verdict(test_func(last.policy, last.user,
                                        [k \in {"username"} |->
                                            last.kwargs[last.owner_kwargs]],
                                        None, last.path, users).ret)

(* a view configured with key 'user' let the owner in while the request
   carried another value under 'username' *)
C8_Witness ==
    /\ last.policy = "OwnerOnly"
    /\ last.owner_kwargs = "user"
    /\ DOMAIN last.kwargs = {"username", "user"}
    /\ last.kwargs["username"] # last.kwargs["user"]
    /\ last.verdict = "Allow"

(* C10: a user created as superuser is staff and passes StaffOnly, a user
   created as staff only is refused by SuperuserOnly, and whoever
   SuperuserOnly lets in StaffOnly lets in too *)
C10_SuperuserPassesStaff ==
    /\ \A h \in helpers :
          /\ h.is_superuser => (h.object.is_superuser /\ h.object.is_staff)
          /\ (h.is_superuser /\ last.policy = "StaffOnly" /\ last.user = h.object)
                => last.verdict = "Allow"
          /\ (h.is_staff /\ ~h.is_superuser /\ last.policy = "SuperuserOnly"
                /\ last.user = h.object)
                => last.verdict = "DenyForbidden"
    /\ \A u \in users : u.is_superuser => u.is_staff
    /\ (last.policy = "SuperuserOnly" /\ last.verdict = "Allow")
        => Verdict(StaffMixin_test_func(last.user).ret) = "Allow"

(* a user created with is_superuser alone passed the staff guard *)
C10_Witness ==
    /\ last.policy = "StaffOnly"
    /\ last.user.is_superuser
    /\ last.user \in users
    /\ last.verdict = "Allow"

(* what one evaluation answers and logs when it runs alone *)
Alone(e) ==
    test_func(evals[e].policy, evals[e].user, evals[e].kwargs,
              evals[e].owner_kwargs, evals[e].path, users)

(* how often an entry occurs in a log *)
Count(log, x) == Cardinality({i \in DOMAIN log : log[i] = x})

(* C9: whatever the interleaving of the concurrent evaluations, each ends
   with the verdict and the audit entries it has when run alone, and the
   shared log holds the entries of the evaluations and nothing else *)
C9_Independence ==
    /\ \A e \in 1..NumEvals :
          evals[e].pc = "done"
            => /\ evals[e].ret = Alone(e).ret
               /\ evals[e].emitted = Alone(e).log
    /\ \A i \in DOMAIN auditLog :
          Count(auditLog, auditLog[i])
            = Cardinality({e \in 1..NumEvals :
                            evals[e].emitted = << auditLog[i] >>})
    /\ \A e \in 1..NumEvals :
          evals[e].emitted # <<>> => Count(auditLog, evals[e].emitted[1]) > 0

(* two evaluations of different principals on the same page overlapped: the
   staff user's was let in and logged after the anonymous one had started,
   and the anonymous one was refused *)
C9_Witness ==
    /\ evals[1].pc = "done"
    /\ evals[2].pc = "done"
    /\ evals[1].policy = "OwnerOrStaff"
    /\ evals[2].policy = "OwnerOrStaff"
    /\ evals[1].user = AnonymousUser
    /\ evals[2].user.is_staff
    /\ evals[1].ret = "False"
    /\ evals[2].ret = "True"
    /\ evals[2].emitted # <<>>

====
